---------------------------- MODULE Spec2Model ----------------------------
(***************************************************************************)
(* Model of the "Fix English Subtitles" flow plugin                        *)
(* (FlowPlugins/LocalFlowPlugins/tools/fixEnglishSubtitles/1.0.0/index.js).*)
(*                                                                         *)
(* A text is a sequence of characters; a character is a one-character      *)
(* string, or a short name for a character that has no printable ASCII     *)
(* form:                                                                   *)
(*   NL U+000A   CR U+000D   TAB U+0009   ZWSP U+200B   BOM U+FEFF         *)
(*   LIGFI U+FB01   LIGFL U+FB02   ELLIP U+2026   EMDASH U+2014            *)
(*   ENDASH U+2013  LDQUO U+201C   RDQUO U+201D   LOWDQUO U+201E           *)
(*   RAQUO U+00BB   LAQUO U+00AB   LSQUO U+2018   RSQUO U+2019             *)
(* Every regular expression of cleanLine is modelled by the matches it     *)
(* finds, scanning left to right as String.prototype.replace does.         *)
(***************************************************************************)
EXTENDS Integers, Sequences, FiniteSets, TLC

\* ------------------------------------------------------------------------
\* Character classes of the JavaScript regular expressions
\* ------------------------------------------------------------------------

\* [a-z]
LowerLetters ==
    {"a","b","c","d","e","f","g","h","i","j","k","l","m",
     "n","o","p","q","r","s","t","u","v","w","x","y","z"}

\* [A-Z]
UpperLetters ==
    {"A","B","C","D","E","F","G","H","I","J","K","L","M",
     "N","O","P","Q","R","S","T","U","V","W","X","Y","Z"}

\* [A-Za-z]
Letters == LowerLetters \cup UpperLetters

\* \d
Digits == {"0","1","2","3","4","5","6","7","8","9"}

\* \w
WordChars == Letters \cup Digits \cup {"_"}

\* \s (of the characters of the model: U+FEFF is white space in JavaScript,
\* U+200B is not)
WhiteSpace == {" ", "TAB", "CR", "NL", "BOM"}

\* what ^ follows under the m flag
LineTerminators == {"NL", "CR"}

\* the value of an index outside the string
NoChar == "EOS"

At(t, i) == IF i >= 1 /\ i <= Len(t) THEN t[i] ELSE NoChar

\* String.prototype.toLowerCase / toUpperCase on one character
LowerSeq ==
    <<"a","b","c","d","e","f","g","h","i","j","k","l","m",
      "n","o","p","q","r","s","t","u","v","w","x","y","z">>

UpperSeq ==
    <<"A","B","C","D","E","F","G","H","I","J","K","L","M",
      "N","O","P","Q","R","S","T","U","V","W","X","Y","Z">>

LowerChar(c) ==
    IF c \in UpperLetters
    THEN LowerSeq[CHOOSE k \in 1..26 : UpperSeq[k] = c]
    ELSE c

UpperChar(c) ==
    IF c \in LowerLetters
    THEN UpperSeq[CHOOSE k \in 1..26 : LowerSeq[k] = c]
    ELSE c

toLowerCase(t) == [i \in 1..Len(t) |-> LowerChar(t[i])]

Max(S) == CHOOSE x \in S : \A y \in S : y <= x

Min(S) == CHOOSE x \in S : \A y \in S : x <= y

\* the first index at or after i that holds no character of `set` (i itself
\* when t[i] is not in it): the end of a greedy run
SkipRun(t, i, set) ==
    IF At(t, i) \in set
    THEN Min({j \in (i + 1)..(Len(t) + 1) : At(t, j) \notin set})
    ELSE i

\* the last index that holds no white space, 0 when there is none
LastNonWs(t) == Max({0} \cup {j \in 1..Len(t) : t[j] \notin WhiteSpace})

\* String.prototype.trim
trim(t) == SubSeq(t, SkipRun(t, 1, WhiteSpace), LastNonWs(t))

\* the pieces of t from index i on; seps holds the indexes of the
\* separators at or after i
RECURSIVE SplitFrom(_, _, _)
RECURSIVE SplitAtSep(_, _, _, _)
SplitFrom(t, sep, i) == SplitAtSep(t, sep, i, {j \in i..Len(t) : t[j] = sep})

SplitAtSep(t, sep, i, seps) ==
    IF seps = {} THEN <<SubSeq(t, i, Len(t))>>
    ELSE <<SubSeq(t, i, Min(seps) - 1)>> \o SplitFrom(t, sep, Min(seps) + 1)

\* String.prototype.split(sep) for a one-character separator: the pieces
\* between the separators, the empty ones kept ("" splits into [""])
split(t, sep) == SplitFrom(t, sep, 1)

\* Array.prototype.join(sep) for a one-character separator
RECURSIVE join(_, _)
join(ls, sep) ==
    IF ls = <<>> THEN <<>>
    ELSE IF Len(ls) = 1 THEN ls[1]
    ELSE ls[1] \o <<sep>> \o join(Tail(ls), sep)

\* ------------------------------------------------------------------------
\* String.prototype.replace with a global pattern.  m[i] is the match the
\* pattern finds when it is tried at index i: its length (0: no match), the
\* text replacing it, and whether the replacer callback throws.  The scan
\* resumes after each match; the counter n is the number of replacer calls.
\* ------------------------------------------------------------------------
NoMatch == [len |-> 0, rep |-> <<>>, throws |-> FALSE, counted |-> FALSE]

Match(n, r) == [len |-> n, rep |-> r, throws |-> FALSE, counted |-> TRUE]

\* the scan of t from index i on: the pattern is tried at every index in
\* turn, so the next match is the first index at or after i where it
\* matches.  out and n are what the scan has produced so far.  A replacer
\* that throws ends the scan.
RECURSIVE ReplaceFrom(_, _, _, _, _)
RECURSIVE ReplaceNext(_, _, _, _, _, _)
RECURSIVE ReplaceAt(_, _, _, _, _, _)
ReplaceFrom(t, m, i, out, n) ==
    ReplaceNext(t, m, i, {j \in i..Len(t) : m[j].len > 0}, out, n)

ReplaceNext(t, m, i, found, out, n) ==
    IF found = {}
    THEN [out |-> out \o SubSeq(t, i, Len(t)), n |-> n, threw |-> FALSE]
    ELSE ReplaceAt(t, m, Min(found), m[Min(found)],
                   out \o SubSeq(t, i, Min(found) - 1), n)

ReplaceAt(t, m, i, h, out, n) ==
    IF h.throws THEN [out |-> out, n |-> n + 1, threw |-> TRUE]
    ELSE ReplaceFrom(t, m, i + h.len, out \o h.rep,
                     IF h.counted THEN n + 1 ELSE n)

ReplaceAll(t, m) == ReplaceFrom(t, m, 1, <<>>, 0)

\* the end of the longest run of white space starting at i (i itself when
\* t[i] is not white space): a greedy \s*
SkipWs(t, i) == SkipRun(t, i, WhiteSpace)

\* ^ under the m flag
AtLineStart(t, i) == i = 1 \/ At(t, i - 1) \in LineTerminators

\* \b
AtWordBoundary(t, i) == (At(t, i - 1) \in WordChars) # (At(t, i) \in WordChars)

\* ------------------------------------------------------------------------
\* The statistics object of one subtitle file
\* ------------------------------------------------------------------------
Counters ==
    {"iFix", "zeroToO", "digitToLetter", "qToG", "wordCorrections",
     "punctSpacing", "spaceCollapse", "globalReplacements",
     "contractionSplit", "zeroWidthStrip", "ligatureFix",
     "ellipsisSpacing", "hyphenNormalize"}

ZeroStats == [k \in Counters |-> 0]

\* stats.<name> += n
Inc(stats, name, n) == [stats EXCEPT ![name] = @ + n]

\* what a step of cleanLine hands to the next: the text, the statistics,
\* and whether an exception is propagating
Step(out, stats, threw) == [out |-> out, stats |-> stats, threw |-> threw]

\* `if (t !== before) stats.<name>++`
IncIfChanged(before, after, stats, name) ==
    Step(after, IF after # before THEN Inc(stats, name, 1) ELSE stats, FALSE)

\* a replace whose callback does `stats.<name>++` at every match
Counted(r, stats, name) == Step(r.out, Inc(stats, name, r.n), r.threw)

\* ------------------------------------------------------------------------
\* cleanLine, statement by statement
\* ------------------------------------------------------------------------

\* a pattern that is a character class: [...]
CharClass(t, set, repl) ==
    [i \in 1..Len(t) |-> IF t[i] \in set THEN Match(1, repl) ELSE NoMatch]

\* replace every character of `set` by the text `repl`
ReplaceChars(t, set, repl) == ReplaceAll(t, CharClass(t, set, repl)).out

\* 0) t.replace(/[\u200b\ufeff]/g, "")
ZeroWidthChars == {"ZWSP", "BOM"}

ZeroWidthStrip(t, stats) ==
    IncIfChanged(t, ReplaceChars(t, ZeroWidthChars, <<>>), stats, "zeroWidthStrip")

\* 0) ligatures
LigatureFix(t, stats) ==
    IncIfChanged(t,
        ReplaceChars(ReplaceChars(t, {"LIGFI"}, <<"f", "i">>),
                     {"LIGFL"}, <<"f", "l">>),
        stats, "ligatureFix")

\* 1) the table of global character replacements
GLOBAL_CHAR_FIXES ==
    << [pattern |-> {"LDQUO", "RDQUO", "LOWDQUO", "RAQUO", "LAQUO"},
        replacement |-> <<"\"">>],
       [pattern |-> {"LSQUO", "RSQUO"}, replacement |-> <<"'">>],
       [pattern |-> {"ELLIP"}, replacement |-> <<".", ".", ".">>],
       [pattern |-> {"EMDASH", "ENDASH"}, replacement |-> <<"-">>] >>

\* a variant that counts in a callback of the replace, once per character
ApplyGlobalFixPerChar(t, stats, fix) ==
    Counted(ReplaceAll(t, CharClass(t, fix.pattern, fix.replacement)),
            stats, "globalReplacements")

\* the callback of GLOBAL_CHAR_FIXES.forEach on one entry of the table
ApplyGlobalFix(t, stats, fix) ==
    IncIfChanged(t, ReplaceChars(t, fix.pattern, fix.replacement),
                 stats, "globalReplacements")

RECURSIVE GlobalFrom(_, _, _)
RECURSIVE GlobalNext(_, _)
GlobalFrom(t, stats, k) ==
    IF k > Len(GLOBAL_CHAR_FIXES) THEN Step(t, stats, FALSE)
    ELSE GlobalNext(ApplyGlobalFix(t, stats, GLOBAL_CHAR_FIXES[k]), k)

GlobalNext(s, k) == GlobalFrom(s.out, s.stats, k + 1)

GlobalReplacements(t, stats) == GlobalFrom(t, stats, 1)

\* 2) contextual I-fixes for l / | / 1.  [l|1|]
IChars == {"l", "|", "1"}

\* a variant that wants white space after the dash: /^(\s*-\s+)[l|1|]/
LeadingDashSpaced(t, i, follow) ==
    LET d == SkipWs(t, i)
        c == SkipWs(t, d + 1)
    IN IF /\ AtLineStart(t, i)
          /\ At(t, d) = "-"
          /\ c > d + 1
          /\ At(t, c) \in IChars
          /\ At(t, c + 1) \in follow
       THEN Match(c - i + 1, SubSeq(t, i, c - 1) \o <<"I">>)
       ELSE NoMatch

\* /^(\s*-\s*)[l|1|](?=<follow>)/gm tried at i: the dash part is kept
LeadingDashMatch(t, i, follow) ==
    LET d == SkipWs(t, i)
        c == SkipWs(t, d + 1)
    IN IF /\ AtLineStart(t, i)
          /\ At(t, d) = "-"
          /\ At(t, c) \in IChars
          /\ At(t, c + 1) \in follow
       THEN Match(c - i + 1, SubSeq(t, i, c - 1) \o <<"I">>)
       ELSE NoMatch

\* 2a) /^(\s*-\s*)[l|1|](?=\s)/gm
IFix2a(t) == [i \in 1..Len(t) |-> LeadingDashMatch(t, i, WhiteSpace)]

\* 2b) /^(\s*-\s*)[l|1|](?=')/gm
IFix2b(t) == [i \in 1..Len(t) |-> LeadingDashMatch(t, i, {"'"})]

\* a variant that looks ahead for the white space after the character and
\* leaves it to the next match: /(\s)[l|1|](?=\s)/g
IFix2cLookahead(t) ==
    [i \in 1..Len(t) |->
        IF /\ t[i] \in WhiteSpace
           /\ At(t, i + 1) \in IChars
           /\ At(t, i + 2) \in WhiteSpace
        THEN Match(2, <<t[i], "I">>)
        ELSE NoMatch]

\* 2c) /(\s)[l|1|](\s)/g
IFix2c(t) ==
    [i \in 1..Len(t) |->
        IF /\ t[i] \in WhiteSpace
           /\ At(t, i + 1) \in IChars
           /\ At(t, i + 2) \in WhiteSpace
        THEN Match(3, <<t[i], "I", t[i + 2]>>)
        ELSE NoMatch]

\* 2d) /(\s)[l|1|](?=')/g
IFix2d(t) ==
    [i \in 1..Len(t) |->
        IF /\ t[i] \in WhiteSpace
           /\ At(t, i + 1) \in IChars
           /\ At(t, i + 2) = "'"
        THEN Match(2, <<t[i], "I">>)
        ELSE NoMatch]

\* a variant that takes a leading I too: /^(\s*)[|I](?=\s)/gm
IFix2eOrI(t) ==
    [i \in 1..Len(t) |->
        LET d == SkipWs(t, i) IN
        IF /\ AtLineStart(t, i)
           /\ At(t, d) \in {"|", "I"}
           /\ At(t, d + 1) \in WhiteSpace
        THEN Match(d - i + 1, SubSeq(t, i, d - 1) \o <<"I">>)
        ELSE NoMatch]

\* 2e) /^(\s*)\|(?=\s)/gm
IFix2e(t) ==
    [i \in 1..Len(t) |->
        LET d == SkipWs(t, i) IN
        IF /\ AtLineStart(t, i)
           /\ At(t, d) = "|"
           /\ At(t, d + 1) \in WhiteSpace
        THEN Match(d - i + 1, SubSeq(t, i, d - 1) \o <<"I">>)
        ELSE NoMatch]

\* 2f) /(\s)\|(?=[A-Za-z])/g
IFix2f(t) ==
    [i \in 1..Len(t) |->
        IF /\ t[i] \in WhiteSpace
           /\ At(t, i + 1) = "|"
           /\ At(t, i + 2) \in Letters
        THEN Match(2, <<t[i], "I">>)
        ELSE NoMatch]

\* a variant with the lookbehind alone, /(?<=[A-Za-z])<c>/g: the digit
\* rules with it would rewrite the 0 of "a0 "
AfterLetter(t, c, r) ==
    [i \in 1..Len(t) |->
        IF t[i] = c /\ At(t, i - 1) \in Letters
        THEN Match(1, <<r>>)
        ELSE NoMatch]

\* /(?<=[A-Za-z])<c>(?=[A-Za-z])/g replaced by <r>
BetweenLetters(t, c, r) ==
    [i \in 1..Len(t) |->
        IF /\ t[i] = c
           /\ At(t, i - 1) \in Letters
           /\ At(t, i + 1) \in Letters
        THEN Match(1, <<r>>)
        ELSE NoMatch]

\* 2g) /(?<=[A-Za-z])\|(?=[A-Za-z])/g
IFix2g(t) == BetweenLetters(t, "|", "I")

\* the seven replaces of step 2, each callback doing stats.iFix++
IFixPatterns(t) ==
    <<IFix2a(t), IFix2b(t), IFix2c(t), IFix2d(t), IFix2e(t), IFix2f(t), IFix2g(t)>>

RECURSIVE IFixFrom(_, _, _)
RECURSIVE IFixNext(_, _)
IFixFrom(t, stats, k) ==
    IF k > 7 THEN Step(t, stats, FALSE)
    ELSE IFixNext(Counted(ReplaceAll(t, IFixPatterns(t)[k]), stats, "iFix"), k)

IFixNext(s, k) == IFixFrom(s.out, s.stats, k + 1)

IFix(t, stats) == IFixFrom(t, stats, 1)

\* 3) 0 -> o between letters
ZeroToO(t, stats) ==
    Counted(ReplaceAll(t, BetweenLetters(t, "0", "o")), stats, "zeroToO")

\* 3b) 5 -> s, 1 -> l, 8 -> B between letters: three replaces, in this
\* order, all counted under digitToLetter
FiveToS(t, stats) ==
    Counted(ReplaceAll(t, BetweenLetters(t, "5", "s")), stats, "digitToLetter")

OneToL(t, stats) ==
    Counted(ReplaceAll(t, BetweenLetters(t, "1", "l")), stats, "digitToLetter")

EightToB(t, stats) ==
    Counted(ReplaceAll(t, BetweenLetters(t, "8", "B")), stats, "digitToLetter")

\* 4) /q(?=[\s\.\,\!\?\;:'"\)\]]|$)/g
QFollow == WhiteSpace \cup {".", ",", "!", "?", ";", ":", "'", "\"", ")", "]"}

\* a variant with the i flag: a capital Q is rewritten too
QToGAnyCase(t) ==
    [i \in 1..Len(t) |->
        IF t[i] \in {"q", "Q"} /\ (At(t, i + 1) \in QFollow \/ i = Len(t))
        THEN Match(1, <<"g">>)
        ELSE NoMatch]

QToGMatch(t) ==
    [i \in 1..Len(t) |->
        IF t[i] = "q" /\ (At(t, i + 1) \in QFollow \/ i = Len(t))
        THEN Match(1, <<"g">>)
        ELSE NoMatch]

QToG(t, stats) == Counted(ReplaceAll(t, QToGMatch(t)), stats, "qToG")

\* 5) the word-level dictionary
WORD_CORRECTIONS ==
    (<<"t", "e", "h">> :> <<"t", "h", "e">>)
    @@ (<<"a", "d", "n">> :> <<"a", "n", "d">>)
    @@ (<<"w", "o", "u", "d">> :> <<"w", "o", "u", "l", "d">>)
    @@ (<<"c", "o", "u", "d">> :> <<"c", "o", "u", "l", "d">>)
    @@ (<<"s", "h", "o", "u", "d">> :> <<"s", "h", "o", "u", "l", "d">>)
    @@ (<<"b", "e", "c", "u", "a", "s", "e">> :> <<"b", "e", "c", "a", "u", "s", "e">>)
    @@ (<<"d", "o", "n", "t">> :> <<"d", "o", "n", "'", "t">>)
    @@ (<<"w", "o", "n", "t">> :> <<"w", "o", "n", "'", "t">>)
    @@ (<<"c", "a", "n", "t">> :> <<"c", "a", "n", "'", "t">>)
    @@ (<<"a", "l", "o", "t">> :> <<"a", " ", "l", "o", "t">>)

\* WORD_CORRECTIONS is an object literal: a key it does not own is looked up
\* on Object.prototype.  The all-lowercase names found there:
\*   constructor -> the function Object, __proto__ -> Object.prototype
KeyConstructor == <<"c", "o", "n", "s", "t", "r", "u", "c", "t", "o", "r">>

KeyProto == <<"_", "_", "p", "r", "o", "t", "o", "_", "_">>

\* String(Object) and String(Object.prototype), what replace() inserts
\* when the callback returns them
ObjectFunctionText ==
    <<"f", "u", "n", "c", "t", "i", "o", "n", " ", "O", "b", "j", "e", "c", "t",
      "(", ")", " ", "{", " ", "[", "n", "a", "t", "i", "v", "e", " ",
      "c", "o", "d", "e", "]", " ", "}">>

ObjectPrototypeText ==
    <<"[", "o", "b", "j", "e", "c", "t", " ", "O", "b", "j", "e", "c", "t", "]">>

\* WORD_CORRECTIONS[lower]
LookupWord(lower) ==
    IF lower \in DOMAIN WORD_CORRECTIONS
    THEN [kind |-> "string", text |-> WORD_CORRECTIONS[lower]]
    ELSE IF lower = KeyConstructor
    THEN [kind |-> "object", text |-> ObjectFunctionText]
    ELSE IF lower = KeyProto
    THEN [kind |-> "object", text |-> ObjectPrototypeText]
    ELSE [kind |-> "undefined", text |-> <<>>]

\* a variant that returns the replacement as the table has it, whatever the
\* first letter of the token
CorrectWordAsListed(word) ==
    LET replacement == LookupWord(toLowerCase(word)) IN
    IF replacement.kind = "undefined"
    THEN [text |-> word, counted |-> FALSE, throws |-> FALSE]
    ELSE [text |-> replacement.text, counted |-> TRUE, throws |-> FALSE]

\* the callback of step 5 on one token: what it returns, whether it counts,
\* whether it throws (replacement.charAt is not a function)
CorrectWord(word) ==
    LET replacement == LookupWord(toLowerCase(word)) IN
    IF replacement.kind = "undefined"
    THEN [text |-> word, counted |-> FALSE, throws |-> FALSE]
    ELSE IF word[1] \in UpperLetters
    THEN IF replacement.kind = "string"
         THEN [text |-> <<UpperChar(replacement.text[1])>> \o Tail(replacement.text),
               counted |-> TRUE, throws |-> FALSE]
         ELSE [text |-> <<>>, counted |-> TRUE, throws |-> TRUE]
    ELSE [text |-> replacement.text, counted |-> TRUE, throws |-> FALSE]

\* the first index at or after i that holds no [\w'] character
TokenRunEnd(t, i) == SkipRun(t, i, WordChars \cup {"'"})

\* /\b[\w']+\b/g tried at i: the index after the match, 0 when none.  The
\* greedy run is given back until it ends at a word boundary.
WordTokenEnd(t, i) ==
    LET ends == {j \in (i + 1)..TokenRunEnd(t, i) : AtWordBoundary(t, j)}
    IN IF AtWordBoundary(t, i) /\ ends # {} THEN Max(ends) ELSE 0

\* the match of step 5 at a token: what the callback returns for it; a
\* token the callback returns unchanged is a match that is not counted
TokenMatch(n, c) ==
    [len |-> n, rep |-> c.text, throws |-> c.throws, counted |-> c.counted]

WordTokenAt(t, i, e) ==
    IF e = 0 THEN NoMatch ELSE TokenMatch(e - i, CorrectWord(SubSeq(t, i, e - 1)))

WordTokens(t) == [i \in 1..Len(t) |-> WordTokenAt(t, i, WordTokenEnd(t, i))]

WordCorrections(t, stats) ==
    Counted(ReplaceAll(t, WordTokens(t)), stats, "wordCorrections")

\* 6a) /\s+([\.\!\?,;:])/g: the white space before a punctuation mark goes
PunctAfterSpace == {".", "!", "?", ",", ";", ":"}

SpaceBeforePunct(t) ==
    [i \in 1..Len(t) |->
        LET e == SkipWs(t, i) IN
        IF t[i] \in WhiteSpace /\ At(t, e) \in PunctAfterSpace
        THEN Match(e - i + 1, <<t[e]>>)
        ELSE NoMatch]

\* 6b) /([\.\!\?])([A-Za-z])/g: a space after sentence punctuation
SentencePunct == {".", "!", "?"}

LetterAfterPunct(t) ==
    [i \in 1..Len(t) |->
        IF t[i] \in SentencePunct /\ At(t, i + 1) \in Letters
        THEN Match(2, <<t[i], " ", t[i + 1]>>)
        ELSE NoMatch]

RemoveSpaceBeforePunct(t, stats) ==
    Counted(ReplaceAll(t, SpaceBeforePunct(t)), stats, "punctSpacing")

AddSpaceAfterPunct(t, stats) ==
    Counted(ReplaceAll(t, LetterAfterPunct(t)), stats, "punctSpacing")

\* 6b runs on what 6a left
PunctSpacingNext(s) == AddSpaceAfterPunct(s.out, s.stats)

\* 6) both replaces count under punctSpacing
PunctSpacing(t, stats) == PunctSpacingNext(RemoveSpaceBeforePunct(t, stats))

IsEllipsisAt(t, i) == At(t, i) = "." /\ At(t, i + 1) = "." /\ At(t, i + 2) = "."

\* /\s+\.\.\./g
SpaceBeforeEllipsis(t) ==
    [i \in 1..Len(t) |->
        LET e == SkipWs(t, i) IN
        IF t[i] \in WhiteSpace /\ IsEllipsisAt(t, e)
        THEN Match(e - i + 3, <<".", ".", ".">>)
        ELSE NoMatch]

\* /\.\.\.(?=[A-Za-z])/g
LetterAfterEllipsis(t) ==
    [i \in 1..Len(t) |->
        IF IsEllipsisAt(t, i) /\ At(t, i + 3) \in Letters
        THEN Match(3, <<".", ".", ".", " ">>)
        ELSE NoMatch]

RemoveSpaceBeforeEllipsis(t) == ReplaceAll(t, SpaceBeforeEllipsis(t)).out

AddSpaceAfterEllipsis(t) == ReplaceAll(t, LetterAfterEllipsis(t)).out

\* 6c) ellipsis spacing, counted once per line that changed
EllipsisSpacing(t, stats) ==
    IncIfChanged(t, AddSpaceAfterEllipsis(RemoveSpaceBeforeEllipsis(t)),
                 stats, "ellipsisSpacing")

\* t.replace(/^\s*-\s*(?=\S)/, "- "): not global, anchored at the start of
\* the string
LeadingHyphen(t) ==
    LET d == SkipWs(t, 1)
        c == SkipWs(t, d + 1)
    IN IF At(t, d) = "-" /\ c <= Len(t)
       THEN <<"-", " ">> \o SubSeq(t, c, Len(t))
       ELSE t

SkipChar(t, c, i) == SkipRun(t, i, {c})

\* a run of two or more <c> replaced by one: /--+/g and / {2,}/g
RunOf(t, c) ==
    [i \in 1..Len(t) |->
        IF t[i] = c /\ At(t, i + 1) = c
        THEN Match(SkipChar(t, c, i) - i, <<c>>)
        ELSE NoMatch]

CollapseRuns(t, c) == ReplaceAll(t, RunOf(t, c)).out

\* dialogue-leading hyphen and repeated hyphens, counted once per line
HyphenNormalize(t, stats) ==
    IncIfChanged(t, CollapseRuns(LeadingHyphen(t), "-"), stats, "hyphenNormalize")

\* collapse multiple spaces, counted once per line
SpaceCollapse(t, stats) ==
    IncIfChanged(t, CollapseRuns(t, " "), stats, "spaceCollapse")

\* 7) the stems of the contraction pattern, in the order of the alternation
CONTRACTIONS ==
    << <<"I", "'", "m">>,
       <<"y", "o", "u", "'", "r", "e">>,
       <<"w", "e", "'", "r", "e">>,
       <<"t", "h", "e", "y", "'", "r", "e">>,
       <<"i", "t", "'", "s">>,
       <<"h", "e", "'", "s">>,
       <<"s", "h", "e", "'", "s">>,
       <<"I", "'", "d">>,
       <<"y", "o", "u", "'", "d">>,
       <<"h", "e", "'", "d">>,
       <<"s", "h", "e", "'", "d">>,
       <<"w", "e", "'", "d">>,
       <<"t", "h", "e", "y", "'", "d">>,
       <<"I", "'", "l", "l">>,
       <<"y", "o", "u", "'", "l", "l">>,
       <<"h", "e", "'", "l", "l">>,
       <<"s", "h", "e", "'", "l", "l">>,
       <<"w", "e", "'", "l", "l">>,
       <<"t", "h", "e", "y", "'", "l", "l">> >>

HasPrefixAt(t, i, p) ==
    i + Len(p) - 1 <= Len(t) /\ SubSeq(t, i, i + Len(p) - 1) = p

SkipLower(t, i) == SkipRun(t, i, LowerLetters)

\* ([a-z]{2,})\b tried at i: the index after the suffix, 0 when none
SuffixEnd(t, i) ==
    LET ends == {j \in (i + 2)..SkipLower(t, i) : AtWordBoundary(t, j)}
    IN IF ends # {} THEN Max(ends) ELSE 0

\* the stems that match at i with a suffix after them
StemsAt(t, i) ==
    {k \in 1..Len(CONTRACTIONS) :
        /\ HasPrefixAt(t, i, CONTRACTIONS[k])
        /\ SuffixEnd(t, i + Len(CONTRACTIONS[k])) # 0}

SplitMatch(t, i, pref, e) ==
    Match(e - i, pref \o <<" ">> \o SubSeq(t, i + Len(pref), e - 1))

SplitAt(t, i, pref) == SplitMatch(t, i, pref, SuffixEnd(t, i + Len(pref)))

\* a variant without the leading \b: a stem inside a word is split too
FirstStemAnywhere(t, i, fit) ==
    IF fit # {}
    THEN SplitAt(t, i, CONTRACTIONS[Min(fit)])
    ELSE NoMatch

FirstStemAt(t, i, fit) ==
    IF AtWordBoundary(t, i) /\ fit # {}
    THEN SplitAt(t, i, CONTRACTIONS[Min(fit)])
    ELSE NoMatch

\* /\b(I'm|...|they'll)([a-z]{2,})\b/g tried at i: the first stem of the
\* alternation that matches
GluedContraction(t) == [i \in 1..Len(t) |-> FirstStemAt(t, i, StemsAt(t, i))]

ContractionSplit(t, stats) ==
    Counted(ReplaceAll(t, GluedContraction(t)), stats, "contractionSplit")

\* the statements of cleanLine in order; statement k reads the text and the
\* statistics statement k - 1 left
NumStatements == 15

\* a variant that runs the dictionary before the digit rules and the q rule
StatementDictionaryFirst(k, t, stats) ==
    CASE k = 1 -> ZeroWidthStrip(t, stats)
      [] k = 2 -> LigatureFix(t, stats)
      [] k = 3 -> GlobalReplacements(t, stats)
      [] k = 4 -> IFix(t, stats)
      [] k = 5 -> WordCorrections(t, stats)
      [] k = 6 -> ZeroToO(t, stats)
      [] k = 7 -> FiveToS(t, stats)
      [] k = 8 -> OneToL(t, stats)
      [] k = 9 -> EightToB(t, stats)
      [] k = 10 -> QToG(t, stats)
      [] k = 11 -> PunctSpacing(t, stats)
      [] k = 12 -> EllipsisSpacing(t, stats)
      [] k = 13 -> HyphenNormalize(t, stats)
      [] k = 14 -> SpaceCollapse(t, stats)
      [] k = 15 -> ContractionSplit(t, stats)

Statement(k, t, stats) ==
    CASE k = 1 -> ZeroWidthStrip(t, stats)
      [] k = 2 -> LigatureFix(t, stats)
      [] k = 3 -> GlobalReplacements(t, stats)
      [] k = 4 -> IFix(t, stats)
      [] k = 5 -> ZeroToO(t, stats)
      [] k = 6 -> FiveToS(t, stats)
      [] k = 7 -> OneToL(t, stats)
      [] k = 8 -> EightToB(t, stats)
      [] k = 9 -> QToG(t, stats)
      [] k = 10 -> WordCorrections(t, stats)
      [] k = 11 -> PunctSpacing(t, stats)
      [] k = 12 -> EllipsisSpacing(t, stats)
      [] k = 13 -> HyphenNormalize(t, stats)
      [] k = 14 -> SpaceCollapse(t, stats)
      [] k = 15 -> ContractionSplit(t, stats)

\* statements k..last in order; an exception leaves the function
RECURSIVE RunStatements(_, _, _, _)
RECURSIVE RunNext(_, _, _)
RunStatements(k, last, t, stats) ==
    IF k > last THEN Step(t, stats, FALSE)
    ELSE RunNext(k, last, Statement(k, t, stats))

RunNext(k, last, s) ==
    IF s.threw THEN s ELSE RunStatements(k + 1, last, s.out, s.stats)

\* cleanLine(line, stats): the cleaned line and the updated statistics, or
\* an exception
cleanLine(line, stats) == RunStatements(1, NumStatements, line, stats)

\* the statements of cleanLine that make up each of the ten rules of the
\* pipeline, first and last: strip, ligatures, global characters, I repair,
\* digits (0, 5, 1, 8), q, dictionary, punctuation, ellipsis/hyphen/space,
\* contractions
RuleStatements ==
    <<<<1, 1>>, <<2, 2>>, <<3, 3>>, <<4, 4>>, <<5, 8>>, <<9, 9>>, <<10, 10>>,
      <<11, 11>>, <<12, 14>>, <<15, 15>>>>

NumRules == Len(RuleStatements)

\* one rule on its own
ApplyRule(r, t, stats) ==
    RunStatements(RuleStatements[r][1], RuleStatements[r][2], t, stats)

\* ------------------------------------------------------------------------
\* The plugin: the two structure tests of the cleanedLines map
\* ------------------------------------------------------------------------

\* /^\d+$/.test(line)
IsIndexLine(line) == line # <<>> /\ \A i \in 1..Len(line) : line[i] \in Digits

\* \d{2}:\d{2}:\d{2},\d{3} at index i
IsTimestampAt(line, i) ==
    /\ i + 11 <= Len(line)
    /\ \A j \in {0, 1, 3, 4, 6, 7, 9, 10, 11} : line[i + j] \in Digits
    /\ line[i + 2] = ":" /\ line[i + 5] = ":" /\ line[i + 8] = ","

\* a variant anchored at both ends, /^...$/: a timing line with position
\* data after the second timestamp would be cleaned as text
IsTimingLineAnchored(line) ==
    /\ IsTimestampAt(line, 1)
    /\ SkipWs(line, 13) > 13
    /\ SubSeq(line, SkipWs(line, 13), Len(line))
         = <<"-", "-", ">", " ">> \o SubSeq(line, Len(line) - 11, Len(line))
    /\ IsTimestampAt(line, Len(line) - 11)

\* /^\d{2}:\d{2}:\d{2},\d{3}\s+-->\s+\d{2}:\d{2}:\d{2},\d{3}/.test(line):
\* no $, so whatever follows the second timestamp is accepted
IsTimingLine(line) ==
    LET a == SkipWs(line, 13)
        b == SkipWs(line, a + 3)
    IN /\ IsTimestampAt(line, 1)
       /\ a > 13
       /\ At(line, a) = "-" /\ At(line, a + 1) = "-" /\ At(line, a + 2) = ">"
       /\ b > a + 3
       /\ IsTimestampAt(line, b)

\* a variant that trims the line before it tests and cleans it
CleanOrKeepTrimmed(line, stats) ==
    IF IsIndexLine(trim(line)) THEN Step(trim(line), stats, FALSE)
    ELSE IF IsTimingLine(trim(line)) THEN Step(trim(line), stats, FALSE)
    ELSE cleanLine(trim(line), stats)

\* the callback of srtLines.map on one line
CleanOrKeep(line, stats) ==
    IF IsIndexLine(line) THEN Step(line, stats, FALSE)
    ELSE IF IsTimingLine(line) THEN Step(line, stats, FALSE)
    ELSE cleanLine(line, stats)

\* srtLines.map(...) from line i on; lines and stats are what the map has
\* produced so far.  An exception ends the map.
RECURSIVE MapLines(_, _, _, _)
RECURSIVE MapNext(_, _, _, _)
\* a variant whose timing test keeps its place between calls (a g flag on
\* the pattern): the line after a timing line fails the test and is cleaned
MapLinesSticky(srtLines, i, lines, stats) ==
    IF i > Len(srtLines) THEN [lines |-> lines, stats |-> stats, threw |-> FALSE]
    ELSE IF i > 1 /\ IsTimingLine(srtLines[i - 1]) /\ ~IsIndexLine(srtLines[i])
    THEN MapNext(srtLines, i, lines, cleanLine(srtLines[i], stats))
    ELSE MapNext(srtLines, i, lines, CleanOrKeep(srtLines[i], stats))

MapLines(srtLines, i, lines, stats) ==
    IF i > Len(srtLines) THEN [lines |-> lines, stats |-> stats, threw |-> FALSE]
    ELSE MapNext(srtLines, i, lines, CleanOrKeep(srtLines[i], stats))

\* a variant that catches the exception and keeps the line as it was: the
\* lines before it stay corrected
MapNextKeep(srtLines, i, lines, s) ==
    IF s.threw THEN MapLines(srtLines, i + 1, Append(lines, srtLines[i]), s.stats)
    ELSE MapLines(srtLines, i + 1, Append(lines, s.out), s.stats)

MapNext(srtLines, i, lines, s) ==
    IF s.threw THEN [lines |-> lines, stats |-> s.stats, threw |-> TRUE]
    ELSE MapLines(srtLines, i + 1, Append(lines, s.out), s.stats)

\* a variant that drops the empty lines before joining
JoinedNonEmpty(m) ==
    [cleanedText |-> IF m.threw THEN <<>>
                     ELSE join(SelectSeq(m.lines, LAMBDA l : l # <<>>), "NL"),
     stats |-> m.stats, threw |-> m.threw]

\* a variant that ends every line, the last too, with a line feed
JoinedTerminated(m) ==
    [cleanedText |-> IF m.threw THEN <<>> ELSE join(m.lines, "NL") \o <<"NL">>,
     stats |-> m.stats, threw |-> m.threw]

\* line 362: cleanedLines.join("\n"), not reached after an exception
Joined(m) ==
    [cleanedText |-> IF m.threw THEN <<>> ELSE join(m.lines, "NL"),
     stats |-> m.stats, threw |-> m.threw]

\* lines 333-362: split, map, join
CleanText(originalText, stats) ==
    Joined(MapLines(split(originalText, "NL"), 1, <<>>, stats))

\* ------------------------------------------------------------------------
\* Files of the working directory
\* ------------------------------------------------------------------------
FileA == <<"a", ".", "s", "r", "t">>

FileB == <<"b", ".", "s", "r", "t">>

\* named by a manifest, never present
FileC == <<"c", ".", "s", "r", "t">>

\* path.join(workDir, `${baseName}_subtitles.exports`)
DefaultExports ==
    <<"m", "o", "v", "i", "e", "_", "s", "u", "b", "t", "i", "t", "l", "e", "s",
      ".", "e", "x", "p", "o", "r", "t", "s">>

\* path.join(workDir, "subtitles.exports")
LegacyExports ==
    <<"s", "u", "b", "t", "i", "t", "l", "e", "s", ".", "e", "x", "p", "o", "r", "t", "s">>

FileNames == {FileA, FileB, FileC, DefaultExports, LegacyExports}

\* the content of a file that does not exist (no text holds this character)
Missing == <<"ENOENT">>

\* fs.existsSync(path.join(workDir, name))
existsSync(files, name) == name \in DOMAIN files /\ files[name] # Missing

LangEng == <<"e", "n", "g">>

LangEn == <<"e", "n">>

\* ------------------------------------------------------------------------
\* State
\* ------------------------------------------------------------------------
VARIABLES
    fs,            \* the files of workDir: name -> text, or Missing
    fs0,           \* the files as they were when the plugin started
    pc,            \* where the plugin is: start, loop, done, threw (idle: not run)
    entries,       \* `lines`: the entries of the manifest
    idx,           \* the index of the next entry of the for loop
    totalFiles,
    updatedFiles,
    doc,           \* the locals of the last loop iteration that cleaned a file
    reads,         \* the names given to fs.readFileSync so far
    writes,        \* the names given to fs.writeFileSync so far
    args,          \* the plugin's argument: inputFileObj and variables
    output,        \* what the plugin returned (NoOutput: it has not returned)
    clLine,        \* cleanLine's argument `line`
    clText,        \* cleanLine's local `t`
    clBefore,      \* `t` before the statement that ran last
    clStats,       \* cleanLine's argument `stats`
    clNext,        \* the next statement of cleanLine (0: not running)
    clThrew,       \* an exception left cleanLine, or the rule
    rule,          \* the rule applied on its own (0: none)
    applied        \* how many times the rule has been applied, or how many
                   \* calls of cleanLine have returned

pluginVars ==
    <<fs, fs0, pc, entries, idx, totalFiles, updatedFiles, doc, reads, writes,
      args, output>>

lineVars == <<clLine, clText, clBefore, clStats, clNext, clThrew, rule, applied>>

vars == <<pluginVars, lineVars>>

NoDoc ==
    [file |-> <<>>, originalText |-> <<>>, cleanedText |-> <<>>,
     stats |-> ZeroStats, threw |-> FALSE, cleaned |-> FALSE]

\* ------------------------------------------------------------------------
\* Inputs: subtitle lines, subtitle files, manifests
\* ------------------------------------------------------------------------

\* "1"
LineIndex == <<"1">>

\* "00:00:01,000 --> 00:00:02,000"
LineTiming ==
    <<"0", "0", ":", "0", "0", ":", "0", "1", ",", "0", "0", "0", " ",
      "-", "-", ">", " ",
      "0", "0", ":", "0", "0", ":", "0", "2", ",", "0", "0", "0">>

\* "00:00:01,000 --> 00:00:02,000  X1:0 l ": a timing line with position
\* data after the second timestamp
LineTimingTrailing == LineTiming \o <<" ", " ", "X", "1", ":", "0", " ", "l", " ">>

\* ""
LineEmpty == <<>>

\* two spaces
LineSpaces == <<" ", " ">>

\* "- l mean, I do."
LineDashL ==
    <<"-", " ", "l", " ", "m", "e", "a", "n", ",", " ", "I", " ", "d", "o", ".">>

\* "Hello, world!"
LineClean == <<"H", "e", "l", "l", "o", ",", " ", "w", "o", "r", "l", "d", "!">>

\* a zero-width space alone
LineZwsp == <<"ZWSP">>

\* a byte-order mark before the first index of a file
LineBomIndex == <<"BOM", "1">>

\* "Constructor"
LineConstructor == <<"C", "o", "n", "s", "t", "r", "u", "c", "t", "o", "r">>

\* "Teh cat sat."
LineTeh == <<"T", "e", "h", " ", "c", "a", "t", " ", "s", "a", "t", ".">>

\* "I'min the car"
LineGlued == <<"I", "'", "m", "i", "n", " ", "t", "h", "e", " ", "c", "a", "r">>

\* "- ."
LineDashDot == <<"-", " ", ".">>

\* the lines the subtitle files are made of
DocLines ==
    {LineIndex, LineTiming, LineTimingTrailing, LineEmpty, LineSpaces,
     LineDashL, LineClean, LineZwsp, LineBomIndex, LineConstructor,
     LineTeh, LineGlued, LineDashDot}

\* the longest subtitle file of the enumeration, in lines
MaxDocLines == 2

Docs ==
    {join(ls, "NL") : ls \in UNION {[1..n -> DocLines] : n \in 1..MaxDocLines}}

\* three whole files: one that cleaning changes, one it leaves alone, one
\* it fails on after a line it would change
DocChanged == join(<<LineIndex, LineTiming, LineDashL, LineEmpty>>, "NL")

DocUnchanged == join(<<LineIndex, LineTiming, LineClean, LineEmpty>>, "NL")

DocThrows == join(<<LineIndex, LineTiming, LineTeh, LineConstructor>>, "NL")

SmallDocs == {DocChanged, DocUnchanged, DocThrows}

\* the language fields of the manifests: eng, EN, fre, enm (Middle English)
\* and the empty field
LangFields ==
    {LangEng, <<"E", "N">>, <<"f", "r", "e">>, <<"e", "n", "m">>, <<>>}

\* filename|index|lang|codec|forced|title
EntryLine(file, lang) ==
    file \o <<"|", "0", "|">> \o lang \o <<"|", "s", "r", "t", "|", "0", "|">>

\* the entries a manifest may hold for a file; the last has no field but
\* the file name
EntriesOf(file) == {EntryLine(file, l) : l \in LangFields} \cup {file}

\* the extractors append "entry\n" for each track
RECURSIVE ManifestText(_)
ManifestText(es) ==
    IF es = <<>> THEN <<>> ELSE es[1] \o <<"NL">> \o ManifestText(Tail(es))

\* one entry per file, in either order; with an empty line between the
\* entries; naming a file that does not exist; empty; white space only
Manifests ==
    {ManifestText(<<a, b>>) : a \in EntriesOf(FileA), b \in EntriesOf(FileB)}
    \cup {ManifestText(<<b, a>>) : a \in EntriesOf(FileA), b \in EntriesOf(FileB)}
    \cup {ManifestText(<<EntryLine(FileA, LangEng), <<" ">>, EntryLine(FileB, LangEn)>>),
          ManifestText(<<EntryLine(FileC, LangEng), EntryLine(FileA, LangEng)>>),
          <<>>,
          <<" ", "NL">>}

\* the manifest of the enumeration of subtitle files
ManifestBoth == ManifestText(<<EntryLine(FileA, LangEng), EntryLine(FileB, <<"E", "N">>)>>)

MakeFs(a, b, def, leg) ==
    (FileA :> a) @@ (FileB :> b) @@ (FileC :> Missing)
    @@ (DefaultExports :> def) @@ (LegacyExports :> leg)

\* every subtitle file of Docs under one manifest, and every manifest, as
\* the default one, the legacy one or shadowing a legacy one, over the
\* three whole files
InitialFiles ==
    {MakeFs(a, DocChanged, ManifestBoth, Missing) : a \in Docs}
    \cup {MakeFs(a, b, m, Missing) : a \in SmallDocs, b \in SmallDocs, m \in Manifests}
    \cup {MakeFs(a, DocChanged, Missing, m) : a \in SmallDocs, m \in Manifests}
    \cup {MakeFs(a, DocChanged, m, ManifestBoth) : a \in SmallDocs, m \in Manifests}
    \cup {MakeFs(a, DocChanged, Missing, Missing) : a \in SmallDocs}

\* ------------------------------------------------------------------------
\* The plugin (lines 272-388)
\* ------------------------------------------------------------------------
\* args.inputFileObj and args.variables of the run
InputArgs ==
    [inputFileObj |-> [file |-> <<"m", "o", "v", "i", "e", ".", "m", "k", "v">>],
     variables |-> [user |-> <<"v">>]]

NoOutput == [outputFileObj |-> <<>>, outputNumber |-> 0, variables |-> <<>>]

\* lines 290-294, 300-304, 383-387: the object of every return statement
Returned(a) ==
    [outputFileObj |-> a.inputFileObj, outputNumber |-> 1, variables |-> a.variables]

LineIdle ==
    /\ clLine = <<>>
    /\ clText = <<>>
    /\ clBefore = [t |-> <<>>, stats |-> ZeroStats]
    /\ clStats = ZeroStats
    /\ clNext = 0
    /\ clThrew = FALSE
    /\ rule = 0
    /\ applied = 0

Init ==
    /\ fs \in InitialFiles
    /\ fs0 = fs
    /\ pc = "start"
    /\ entries = <<>>
    /\ idx = 1
    /\ totalFiles = 0
    /\ updatedFiles = 0
    /\ doc = NoDoc
    /\ reads = <<>>
    /\ writes = <<>>
    /\ args = InputArgs
    /\ output = NoOutput
    /\ LineIdle

\* a variant that prefers the legacy manifest
ExportsFileLegacyFirst(files) ==
    IF existsSync(files, LegacyExports) THEN LegacyExports ELSE DefaultExports

\* lines 284-286
ExportsFile(files) ==
    IF existsSync(files, DefaultExports) THEN DefaultExports ELSE LegacyExports

\* lines 297-307, the manifest exists: an empty one ends the plugin
ReadManifest(exportsFile, raw) ==
    /\ reads' = Append(reads, exportsFile)
    /\ pc' = IF raw = <<>> THEN "done" ELSE "loop"
    /\ output' = IF raw = <<>> THEN Returned(args) ELSE output
    /\ entries' = IF raw = <<>> THEN entries ELSE split(raw, "NL")

\* lines 279-307: choose the manifest; return when there is none or it is
\* empty, else split it into entries
FindManifest ==
    /\ pc = "start"
    /\ IF existsSync(fs, ExportsFile(fs))
       THEN ReadManifest(ExportsFile(fs), trim(fs[ExportsFile(fs)]))
       ELSE /\ pc' = "done"
            /\ output' = Returned(args)
            /\ UNCHANGED <<entries, reads>>
    /\ UNCHANGED <<fs, fs0, idx, totalFiles, updatedFiles, doc, writes, args,
                   lineVars>>

\* line 317: (parts[2] || "").toLowerCase()
LangOf(parts) == toLowerCase(IF Len(parts) >= 3 THEN parts[3] ELSE <<>>)

\* a variant testing the prefix: lang.startsWith("en")
IsEnglishPrefix(lang) == Len(lang) >= 2 /\ SubSeq(lang, 1, 2) = LangEn

\* line 320
IsEnglish(lang) == lang = LangEng \/ lang = LangEn

\* lines 313-326: the entries the loop passes over
Skips(entry, parts) ==
    \/ trim(entry) = <<>>
    \/ ~IsEnglish(LangOf(parts))
    \/ ~existsSync(fs, parts[1])

\* a variant that writes every file it has cleaned
ShouldWriteAlways(cleanedText, originalText) == TRUE

\* line 364
ShouldWrite(cleanedText, originalText) == cleanedText # originalText

\* lines 364-366, reached only when the map returned
Writes(c, originalText) == ~c.threw /\ ShouldWrite(c.cleanedText, originalText)

\* lines 328-376: read the file, clean it, write it when it changed; an
\* exception of cleanLine leaves the plugin
CleanFile(filename, originalText, c) ==
    /\ totalFiles' = totalFiles + 1
    /\ reads' = Append(reads, filename)
    /\ doc' = [file |-> filename, originalText |-> originalText,
               cleanedText |-> c.cleanedText, stats |-> c.stats,
               threw |-> c.threw, cleaned |-> TRUE]
    /\ pc' = IF c.threw THEN "threw" ELSE "loop"
    /\ idx' = IF c.threw THEN idx ELSE idx + 1
    /\ fs' = IF Writes(c, originalText)
             THEN [fs EXCEPT ![filename] = c.cleanedText]
             ELSE fs
    /\ writes' = IF Writes(c, originalText) THEN Append(writes, filename) ELSE writes
    /\ updatedFiles' = IF Writes(c, originalText) THEN updatedFiles + 1
                       ELSE updatedFiles

\* a variant whose counters are declared once, before the loop: a file starts
\* from the counts of the file cleaned before it
CarriedStats(previous) == previous

\* lines 335-349: const stats = {iFix: 0, ...}, inside the loop body
NewStats(previous) == ZeroStats

Iteration(entry, parts) ==
    IF Skips(entry, parts)
    THEN /\ idx' = idx + 1
         /\ UNCHANGED <<fs, pc, totalFiles, updatedFiles, doc, reads, writes>>
    ELSE CleanFile(parts[1], fs[parts[1]],
                   CleanText(fs[parts[1]], NewStats(doc.stats)))

\* lines 312-377: one iteration of the for loop
ProcessEntry ==
    /\ pc = "loop"
    /\ idx <= Len(entries)
    /\ Iteration(entries[idx], split(entries[idx], "|"))
    /\ UNCHANGED <<fs0, entries, args, output, lineVars>>

\* lines 379-387: after the last entry, return output 1
Finish ==
    /\ pc = "loop"
    /\ idx > Len(entries)
    /\ pc' = "done"
    /\ output' = Returned(args)
    /\ UNCHANGED <<fs, fs0, entries, idx, totalFiles, updatedFiles, doc, reads,
                   writes, args, lineVars>>

Next == FindManifest \/ ProcessEntry \/ Finish

Spec == Init /\ [][Next]_vars

\* ------------------------------------------------------------------------
\* The plugin over subtitle files with CRLF line endings
\* ------------------------------------------------------------------------

\* "12"
LineTwelve == <<"1", "2">>

\* the lines before their carriage return: among them "a .", "q", " -" and
\* "x ...", where a rule looks at the end of the line
CrlfBodies ==
    {LineTwelve, LineTiming, LineEmpty, LineDashL, LineTeh,
     <<"a", " ", ".">>, <<"q">>, <<" ", "-">>, <<"x", " ", ".", ".", ".">>}

\* every line ends with a carriage return before the line feed
CrlfLines == {l \o <<"CR">> : l \in CrlfBodies}

\* the lines joined by line feeds, with and without a line feed at the end
CrlfDocs ==
    UNION {{join(ls, "NL"), join(ls, "NL") \o <<"NL">>} :
              ls \in UNION {[1..n -> CrlfLines] : n \in 1..MaxDocLines}}

DocCrlf == join(<<LineIndex \o <<"CR">>, LineTiming \o <<"CR">>, LineDashL \o <<"CR">>>>, "NL")

CrlfFiles == {MakeFs(a, DocCrlf, ManifestBoth, Missing) : a \in CrlfDocs}

InitCrlf ==
    /\ fs \in CrlfFiles
    /\ fs0 = fs
    /\ pc = "start"
    /\ entries = <<>>
    /\ idx = 1
    /\ totalFiles = 0
    /\ updatedFiles = 0
    /\ doc = NoDoc
    /\ reads = <<>>
    /\ writes = <<>>
    /\ args = InputArgs
    /\ output = NoOutput
    /\ LineIdle

SpecCrlf == InitCrlf /\ [][Next]_vars

\* ------------------------------------------------------------------------
\* cleanLine on one line, statement by statement (lines 87-240)
\* ------------------------------------------------------------------------

\* "1080p"
Line1080p == <<"1", "0", "8", "0", "p">>

\* "h0w a5k c1ean a8out"
LineDigits ==
    <<"h", "0", "w", " ", "a", "5", "k", " ", "c", "1", "e", "a", "n", " ",
      "a", "8", "o", "u", "t">>

\* "h0w 1080p"
LineHow1080p == <<"h", "0", "w", " ">> \o Line1080p

\* " l l "
LineTwoL == <<" ", "l", " ", "l", " ">>

\* "I'mhe'dxy"
LineTwoStems == <<"I", "'", "m", "h", "e", "'", "d", "x", "y">>

\* "wait ...what"
LineEllipsis == <<"w", "a", "i", "t", " ", ".", ".", ".", "w", "h", "a", "t">>

\* "somethinq."
LineQ == <<"s", "o", "m", "e", "t", "h", "i", "n", "q", ".">>

\* "|t's a spl|ne"
LinePipe == <<"|", "t", "'", "s", " ", "a", " ", "s", "p", "l", "|", "n", "e">>

\* U+200B "a" U+200B
LineTwoZwsp == <<"ZWSP", "a", "ZWSP">>

\* "a  b  c"
LineTwoRuns == <<"a", " ", " ", "b", " ", " ", "c">>

\* "-1 am"
LineDashOne == <<"-", "1", " ", "a", "m">>

\* "- l" U+FEFF "x"
LineDashBom == <<"-", " ", "l", "BOM", "x">>

\* "dont TEH 'adn' teh's"
LineKeys ==
    <<"d", "o", "n", "t", " ", "T", "E", "H", " ", "'", "a", "d", "n", "'", " ",
      "t", "e", "h", "'", "s">>

\* "I'minLondon"
LineGluedCapital == <<"I", "'", "m", "i", "n", "L", "o", "n", "d", "o", "n">>

\* "xI'min she'sok"
LineInsideWord ==
    <<"x", "I", "'", "m", "i", "n", " ", "s", "h", "e", "'", "s", "o", "k">>

\* "c0ud"
LineCoud == <<"c", "0", "u", "d">>

\* "I" U+2019 "min", and " l" U+2019 "m"
LineCurlyGlued == <<"I", "RSQUO", "m", "i", "n">>

LineCurlyL == <<" ", "l", "RSQUO", "m">>

\* ".l x"
LineDotL == <<".", "l", " ", "x">>

\* "-l x | l'm |a b|c"
LineManyI ==
    <<"-", "l", " ", "x", " ", "|", " ", "l", "'", "m", " ", "|", "a", " ",
      "b", "|", "c">>

\* U+201C "a" U+201D " " U+2018 "b" U+2019 " " U+2026 U+2014
LineFancy ==
    <<"LDQUO", "a", "RDQUO", " ", "LSQUO", "b", "RSQUO", " ", "ELLIP", "EMDASH">>

\* "Q. q) qa q- q2 q] q"
LineManyQ ==
    <<"Q", ".", " ", "q", ")", " ", "q", "a", " ", "q", "-", " ", "q", "2", " ",
      "q", "]", " ", "q">>

\* "the constructor"
LineTheConstructor == <<"t", "h", "e", " ">> \o KeyConstructor

\* "-...and"
LineDashEllipsis == <<"-", ".", ".", ".", "a", "n", "d">>

\* "--Hi a--b"
LineHyphens == <<"-", "-", "H", "i", " ", "a", "-", "-", "b">>

\* the lines with a case of every rule
SeedLines ==
    DocLines \cup {Line1080p, LineHow1080p, LineDigits, LineTwoL, LineTwoStems, LineEllipsis,
                   LineQ, LinePipe, LineTwoZwsp, LineTwoRuns, LineDashOne, LineDashBom,
                   LineKeys, LineGluedCapital, LineInsideWord,
                   LineCoud, LineCurlyGlued, LineCurlyL, LineDotL, LineManyI,
                   LineFancy, LineManyQ, LineTheConstructor, LineDashEllipsis,
                   LineHyphens,
                   <<"LDQUO", "h", "i", "RDQUO", " ", "LIGFI", "s", "h", "ELLIP">>}

\* the characters of the enumerated lines
Alphabet == {"a", "0", "1", "5", "8", " "}

\* the longest enumerated line
MaxLen == 3

Strings == UNION {[1..n -> Alphabet] : n \in 0..MaxLen}

\* cleanLine is called on the lines that are neither index nor timing lines
LineInputs ==
    {l \in SeedLines \cup Strings : ~IsIndexLine(l) /\ ~IsTimingLine(l)}

NoFiles == [n \in FileNames |-> Missing]

PluginIdle ==
    /\ fs = NoFiles
    /\ fs0 = NoFiles
    /\ pc = "idle"
    /\ entries = <<>>
    /\ idx = 1
    /\ totalFiles = 0
    /\ updatedFiles = 0
    /\ doc = NoDoc
    /\ reads = <<>>
    /\ writes = <<>>
    /\ args = InputArgs
    /\ output = NoOutput

\* the applications of a rule to its own output, and the runs of cleanLine
\* over what it returned
MaxApplications == 2

\* line 88: let t = line
InitLine ==
    /\ PluginIdle
    /\ clLine \in LineInputs
    /\ clText = clLine
    /\ clBefore = [t |-> clLine, stats |-> ZeroStats]
    /\ clStats = ZeroStats
    /\ clNext = 1
    /\ clThrew = FALSE
    /\ rule = 0
    /\ applied = 0

\* what a statement leaves: t and stats, or the exception
Ran(s) ==
    /\ clBefore' = [t |-> clText, stats |-> clStats]
    /\ clText' = IF s.threw THEN clText ELSE s.out
    /\ clStats' = s.stats
    /\ clThrew' = s.threw
    /\ clNext' = IF s.threw THEN clNext ELSE clNext + 1

\* the next statement of cleanLine
RunStatement ==
    /\ pc = "idle" /\ rule = 0
    /\ clNext \in 1..NumStatements
    /\ ~clThrew
    /\ Ran(Statement(clNext, clText, clStats))
    /\ UNCHANGED <<pluginVars, clLine, rule, applied>>

\* line 239: return t
Return ==
    /\ pc = "idle" /\ rule = 0
    /\ clNext = NumStatements + 1
    /\ clNext' = 0
    /\ applied' = applied + 1
    /\ UNCHANGED <<pluginVars, clLine, clText, clBefore, clStats, clThrew, rule>>

\* lines 335-359, in a later run of the plugin over the file it wrote: the
\* line cleanLine returned is its argument, with counters at zero, unless
\* the line has become an index or a timing line
CallAgain ==
    /\ pc = "idle" /\ rule = 0
    /\ clNext = 0
    /\ applied \in 1..(MaxApplications - 1)
    /\ ~IsIndexLine(clText) /\ ~IsTimingLine(clText)
    /\ clLine' = clText
    /\ clBefore' = [t |-> clText, stats |-> ZeroStats]
    /\ clStats' = ZeroStats
    /\ clNext' = 1
    /\ UNCHANGED <<pluginVars, clText, clThrew, rule, applied>>

NextLine == RunStatement \/ Return \/ CallAgain

SpecLine == InitLine /\ [][NextLine]_vars

\* ------------------------------------------------------------------------
\* One rule applied to a line, and again to what it returned
\* ------------------------------------------------------------------------

InitRule ==
    /\ PluginIdle
    /\ clLine \in LineInputs
    /\ clText = clLine
    /\ clBefore = [t |-> clLine, stats |-> ZeroStats]
    /\ clStats = ZeroStats
    /\ clNext = 0
    /\ clThrew = FALSE
    /\ rule \in 1..NumRules
    /\ applied = 0

Applied(s) ==
    /\ clBefore' = [t |-> clText, stats |-> clStats]
    /\ clText' = IF s.threw THEN clText ELSE s.out
    /\ clStats' = s.stats
    /\ clThrew' = s.threw
    /\ applied' = applied + 1

ApplyAgain ==
    /\ pc = "idle" /\ rule # 0
    /\ applied < MaxApplications
    /\ ~clThrew
    /\ Applied(ApplyRule(rule, clText, clStats))
    /\ UNCHANGED <<pluginVars, clLine, clNext, rule>>

NextRule == ApplyAgain

SpecRule == InitRule /\ [][NextRule]_vars

\* ------------------------------------------------------------------------
\* Properties
\* ------------------------------------------------------------------------

InSeq(x, q) == \E k \in 1..Len(q) : q[k] = x

\* the last iteration cleaned a file and the map returned
Corrected == doc.cleaned /\ ~doc.threw

\* the lines of that file as read, and as joined after the map
InLines == split(doc.originalText, "NL")

OutLines == split(doc.cleanedText, "NL")

\* the block classifier of the specification: ^\d+$
MatchesIndex(l) == Len(l) >= 1 /\ \A i \in 1..Len(l) : l[i] \in Digits

\* HH:MM:SS,mmm at index i
StampAt(l, i) ==
    /\ i >= 1 /\ i + 11 <= Len(l)
    /\ \A j \in {0, 1, 3, 4, 6, 7, 9, 10, 11} : l[i + j] \in Digits
    /\ <<l[i + 2], l[i + 5], l[i + 8]>> = <<":", ":", ",">>

AllWhiteSpace(l, a, b) == \A j \in a..b : l[j] \in WhiteSpace

\* begins with HH:MM:SS,mmm --> HH:MM:SS,mmm, white space around the arrow
BeginsWithTiming(l) ==
    \E a \in 14..Len(l) : \E b \in (a + 4)..Len(l) :
        /\ StampAt(l, 1)
        /\ AllWhiteSpace(l, 13, a - 1)
        /\ SubSeq(l, a, a + 2) = <<"-", "-", ">">>
        /\ AllWhiteSpace(l, a + 3, b - 1)
        /\ StampAt(l, b)

Structural(l) == MatchesIndex(l) \/ BeginsWithTiming(l)

KindOf(l) ==
    IF MatchesIndex(l) THEN "Index"
    ELSE IF BeginsWithTiming(l) THEN "Timing"
    ELSE IF AllWhiteSpace(l, 1, Len(l)) THEN "Blank"
    ELSE "Text"

\* the statistics after cleanLine has run on each of the lines in turn
RECURSIVE StatsAfter(_, _)
StatsAfter(ls, stats) ==
    IF ls = <<>> THEN stats
    ELSE StatsAfter(Tail(ls), cleanLine(Head(ls), stats).stats)

\* C1: every line of a cleaned file that matches the index pattern, or
\* begins with the timing pattern (whatever follows it), is at the same
\* position of the output, character for character, and the statistics are
\* those of the other lines alone: no rule ran on it, no counter counts it.
C1_StructuralLinesKept ==
    Corrected =>
        /\ \A i \in 1..Len(InLines) :
              Structural(InLines[i]) =>
                  i <= Len(OutLines) /\ OutLines[i] = InLines[i]
        /\ doc.stats =
             StatsAfter(SelectSeq(InLines, LAMBDA l : ~Structural(l)), ZeroStats)

\* a file with a timing line that has position data after it, and a text
\* line that cleaning changed
C1_Witness ==
    /\ Corrected
    /\ doc.cleanedText # doc.originalText
    /\ \E i \in 1..Len(InLines) :
          BeginsWithTiming(InLines[i]) /\ Len(InLines[i]) > Len(LineTiming)

\* C2: in every cleaned file, the kind (Index, Timing, Blank, Text) of the
\* output line at each position is the kind of the input line there.
C2_KindsKept ==
    Corrected =>
        \A i \in 1..Len(InLines) :
            i <= Len(OutLines) /\ KindOf(OutLines[i]) = KindOf(InLines[i])

NumLines(t) == Cardinality({i \in 1..Len(t) : t[i] = "NL"}) + 1

\* C3: the text joined after the map has as many "\n"-separated lines as
\* the text that was read.
C3_SameLineCount ==
    Corrected => NumLines(doc.cleanedText) = NumLines(doc.originalText)

\* a file of several lines, one of them empty, that cleaning changed
C3_Witness ==
    /\ Corrected
    /\ doc.cleanedText # doc.originalText
    /\ \E i \in 1..Len(InLines) : InLines[i] = <<>>
    /\ NumLines(doc.originalText) >= 2

\* C4: in every cleaned file, a line that is empty or all white space is
\* in the output as it was, and the statistics are those of the lines that
\* are not blank.
C4_BlankLinesKept ==
    Corrected =>
        /\ \A i \in 1..Len(InLines) :
              KindOf(InLines[i]) = "Blank" =>
                  i <= Len(OutLines) /\ OutLines[i] = InLines[i]
        /\ doc.stats =
             StatsAfter(SelectSeq(InLines, LAMBDA l : KindOf(l) = "Text"),
                        ZeroStats)

\* C5: a cleaned file has been written exactly when the joined text differs
\* from the text read, it then holds the joined text, every write is counted
\* once as an update, and a file none of whose lines changed was not written.
C5_WrittenIffChanged ==
    Corrected =>
        /\ InSeq(doc.file, writes) <=> doc.cleanedText # doc.originalText
        /\ fs[doc.file] = doc.cleanedText
        /\ updatedFiles = Len(writes)
        /\ (\A i \in 1..Len(InLines) : OutLines[i] = InLines[i]) =>
              ~InSeq(doc.file, writes) /\ fs[doc.file] = fs0[doc.file]

\* a file left as it was after an earlier file was rewritten
C5_Witness ==
    /\ Corrected
    /\ doc.cleanedText = doc.originalText
    /\ writes # <<>>
    /\ ~InSeq(doc.file, writes)
    /\ updatedFiles < totalFiles

\* the file an entry names, and whether its third field is eng or en in
\* any capitalisation
FileOf(entry) == split(entry, "|")[1]

ThirdFieldEnglish(entry) ==
    /\ Len(split(entry, "|")) >= 3
    /\ toLowerCase(split(entry, "|")[3]) \in {LangEng, LangEn}

Untouched(f) ==
    /\ ~InSeq(f, reads)
    /\ ~InSeq(f, writes)
    /\ f \in DOMAIN fs => fs[f] = fs0[f]

\* C6: at every point of a run, the file of an entry whose third field is
\* not eng or en has not been read or written and holds what it held at the
\* start, and every subtitle file read or written is named by an entry whose
\* third field is eng or en.
C6_OnlyEnglishTouched ==
    /\ \A k \in 1..Len(entries) :
          ~ThirdFieldEnglish(entries[k]) => Untouched(FileOf(entries[k]))
    /\ \A f \in {FileA, FileB, FileC} :
          ~Untouched(f) =>
              \E k \in 1..Len(entries) :
                  ThirdFieldEnglish(entries[k]) /\ FileOf(entries[k]) = f

\* a finished run that rewrote a file, with an entry in another language
\* naming a file that cleaning would change
C6_Witness ==
    /\ pc = "done"
    /\ writes # <<>>
    /\ \E k \in 1..Len(entries) :
          /\ ~ThirdFieldEnglish(entries[k])
          /\ Len(split(entries[k], "|")) >= 3
          /\ existsSync(fs, FileOf(entries[k]))
          /\ fs[FileOf(entries[k])] = DocChanged

\* C7: a rule applied to its own output returns it unchanged.
C7_RuleIdempotent ==
    (rule # 0 /\ applied = MaxApplications /\ ~clThrew) => clText = clBefore.t

\* the digit and the letter of statements 5 to 8
DigitRules ==
    (5 :> <<"0", "o", "zeroToO">>) @@ (6 :> <<"5", "s", "digitToLetter">>)
    @@ (7 :> <<"1", "l", "digitToLetter">>) @@ (8 :> <<"8", "B", "digitToLetter">>)

Flanked(t, i) ==
    /\ i > 1 /\ i < Len(t)
    /\ t[i - 1] \in Letters
    /\ t[i + 1] \in Letters

RewrittenBy(k, t) == {i \in 1..Len(t) : t[i] = DigitRules[k][1] /\ Flanked(t, i)}

\* what digit rule k makes of t, and of the statistics
DigitRuleText(k, t) ==
    [i \in 1..Len(t) |-> IF i \in RewrittenBy(k, t) THEN DigitRules[k][2] ELSE t[i]]

DigitRuleStats(k, t, stats) ==
    [stats EXCEPT ![DigitRules[k][3]] = @ + Cardinality(RewrittenBy(k, t))]

\* C8: each digit rule rewrites exactly the occurrences of its digit that
\* stand between two ASCII letters in the line as the rule finds it, and
\* counts each; "1080p" leaves cleanLine as it came, with zeroToO and
\* digitToLetter at zero.
C8_DigitRulesGuarded ==
    /\ (pc = "idle" /\ rule = 0 /\ clNext \in 6..9) =>
          /\ clText = DigitRuleText(clNext - 1, clBefore.t)
          /\ clStats = DigitRuleStats(clNext - 1, clBefore.t, clBefore.stats)
    /\ clLine = Line1080p =>
          clText = clLine /\ clStats.zeroToO = 0 /\ clStats.digitToLetter = 0

\* the 0 -> o rule has run on a line that holds a 0 between letters and a 0
\* that is not
C8_Witness ==
    /\ clNext = 6
    /\ clText # clBefore.t
    /\ \E i \in 1..Len(clText) : clText[i] = "0"

\* C9: no run of the plugin ends with an exception of cleanLine.
C9_NeverThrows == pc # "threw"

\* cleanLine fails on the line
FailsOn(l) == cleanLine(l, ZeroStats).threw

HasFailingLine ==
    \E i \in 1..Len(InLines) : ~Structural(InLines[i]) /\ FailsOn(InLines[i])

\* C10: a file with a line on which cleanLine fails holds what it held at
\* the start and has not been written.
C10_FailedFileKept ==
    (doc.cleaned /\ HasFailingLine) =>
        /\ fs[doc.file] = doc.originalText
        /\ fs[doc.file] = fs0[doc.file]
        /\ ~InSeq(doc.file, writes)

\* the map failed on a line after a line that cleaning changes
C10_Witness ==
    /\ pc = "threw"
    /\ \E i \in 1..Len(InLines) : \E j \in (i + 1)..Len(InLines) :
          /\ ~Structural(InLines[i])
          /\ ~FailsOn(InLines[i])
          /\ cleanLine(InLines[i], ZeroStats).out # InLines[i]
          /\ FailsOn(InLines[j])

\* the occurrences a statement substitutes in t: the zero-width characters,
\* and the runs of two or more spaces
ZeroWidthOccurrences(t) == Cardinality({i \in 1..Len(t) : t[i] \in {"ZWSP", "BOM"}})

SpaceRuns(t) ==
    Cardinality({i \in 1..Len(t) : /\ t[i] = " "
                                   /\ At(t, i + 1) = " "
                                   /\ At(t, i - 1) # " "})

\* C11: a counter counts the occurrences substituted on the line: the
\* invisible-character strip adds the number of zero-width characters it
\* removed to zeroWidthStrip, the space collapse adds the number of runs of
\* spaces it collapsed to spaceCollapse.
C11_CountsOccurrences ==
    (pc = "idle" /\ rule = 0) =>
        /\ clNext = 2 =>
              clStats.zeroWidthStrip
                  = clBefore.stats.zeroWidthStrip + ZeroWidthOccurrences(clBefore.t)
        /\ clNext = 15 =>
              clStats.spaceCollapse
                  = clBefore.stats.spaceCollapse + SpaceRuns(clBefore.t)

\* what the plugin makes of a file that is the only one it cleans
Alone(originalText) == CleanText(originalText, ZeroStats)

\* C12: the counts and the corrected text of a cleaned file are those of
\* that file cleaned alone, from counters at zero, whatever files were
\* cleaned before it.
C12_StatsPerDocument ==
    doc.cleaned =>
        /\ doc.stats = Alone(doc.originalText).stats
        /\ doc.cleanedText = Alone(doc.originalText).cleanedText

\* the second file of a run has been cleaned and both files moved counters
C12_Witness ==
    /\ Corrected
    /\ totalFiles = 2
    /\ Len(writes) = 2
    /\ doc.stats # ZeroStats

\* what becomes of a line, whatever stands around it
LineAlone(l) == IF Structural(l) THEN l ELSE cleanLine(l, ZeroStats).out

\* C13: line i of the corrected text is a function of line i of the input
\* alone: it is what that line becomes in any document, at any position,
\* whatever the other lines are.
C13_LineIsolation ==
    Corrected =>
        /\ Len(OutLines) = Len(InLines)
        /\ \A i \in 1..Len(InLines) : OutLines[i] = LineAlone(InLines[i])

\* a file of two different lines has been cleaned, the second, after a
\* timing line or after a line that cleaning changed, changed itself
C13_Witness ==
    /\ Corrected
    /\ Len(InLines) = 2
    /\ InLines[1] # InLines[2]
    /\ OutLines[1] # InLines[1] \/ BeginsWithTiming(InLines[1])
    /\ OutLines[2] # InLines[2]

\* the index of a single l, | or 1 that stands after optional white space,
\* a dash and optional white space at the start of t, with white space
\* after it
DashLoneAt(t) ==
    {p \in 2..(Len(t) - 1) :
        /\ t[p] \in {"l", "|", "1"}
        /\ t[p + 1] \in WhiteSpace
        /\ \E d \in 1..(p - 1) : /\ t[d] = "-"
                                 /\ AllWhiteSpace(t, 1, d - 1)
                                 /\ AllWhiteSpace(t, d + 1, p - 1)}

\* "- I mean, I do."
LineDashI ==
    <<"-", " ", "I", " ", "m", "e", "a", "n", ",", " ", "I", " ", "d", "o", ".">>

\* C14: when the line, as the I repair finds it (after the invisible
\* characters are stripped and the punctuation is normalised), starts with
\* optional white space, a dash, optional white space and a single l, | or 1
\* followed by white space, the repair rewrites that character to I; the
\* repair changes no length and iFix grows by one for each character it
\* rewrote.  "- l mean, I do." leaves cleanLine as "- I mean, I do." with
\* iFix = 1 and every other counter at zero.
C14_LeadingDashI ==
    /\ (pc = "idle" /\ rule = 0 /\ clNext = 5) =>
          /\ Len(clText) = Len(clBefore.t)
          /\ \A p \in DashLoneAt(clBefore.t) : clText[p] = "I"
          /\ clStats.iFix = clBefore.stats.iFix
                 + Cardinality({i \in 1..Len(clText) : clText[i] # clBefore.t[i]})
    /\ (pc = "idle" /\ rule = 0 /\ clNext = 0 /\ clLine = LineDashL) =>
          /\ clText = LineDashI
          /\ clStats = [ZeroStats EXCEPT !["iFix"] = 1]

\* the repair has rewritten a 1 that follows the dash directly
C14_Witness ==
    /\ pc = "idle" /\ rule = 0 /\ clNext = 5
    /\ \E p \in DashLoneAt(clBefore.t) :
          /\ clBefore.t[p - 1] = "-"
          /\ clText[p] = "I"
    /\ clStats.iFix = 1

\* C14 as the specification states it, of the line as cleanLine receives
\* it: the character is rewritten and counted.
C14_OfInputLine ==
    (pc = "idle" /\ rule = 0 /\ clNext = 0 /\ DashLoneAt(clLine) # {}) =>
        /\ clStats.iFix >= 1
        /\ InSeq("I", clText)

\* a token is the stretch from the first to the last word character of a
\* maximal run of word characters and apostrophes
TokenStartsAt(t, i) ==
    /\ t[i] \in WordChars
    /\ LET a == Max({0} \cup {j \in 1..(i - 1) : t[j] # "'"})
       IN a = 0 \/ t[a] \notin WordChars

TokenEndFrom(t, i) ==
    LET r == Min({Len(t) + 1} \cup {j \in i..Len(t) : t[j] \notin WordChars \cup {"'"}})
    IN Max({j \in i..(r - 1) : t[j] \in WordChars})

TokenFrom(t, i) == SubSeq(t, i, TokenEndFrom(t, i))

IsKey(token) == toLowerCase(token) \in DOMAIN WORD_CORRECTIONS

\* the value of the token's key, its first letter in upper case exactly when
\* the token begins with A-Z
DictionaryValue(token) ==
    LET v == WORD_CORRECTIONS[toLowerCase(token)]
    IN IF token[1] \in UpperLetters THEN <<UpperChar(v[1])>> \o Tail(v) ELSE v

DictionaryMatches(t) ==
    [i \in 1..Len(t) |->
        IF TokenStartsAt(t, i) /\ IsKey(TokenFrom(t, i))
        THEN Match(Len(TokenFrom(t, i)), DictionaryValue(TokenFrom(t, i)))
        ELSE NoMatch]

\* a token names a property every object inherits
HasInheritedToken(t) ==
    \E i \in 1..Len(t) :
        /\ TokenStartsAt(t, i)
        /\ toLowerCase(TokenFrom(t, i)) \in {KeyConstructor, KeyProto}

\* "The cat sat."
LineThe == <<"T", "h", "e", " ", "c", "a", "t", " ", "s", "a", "t", ".">>

\* C15: the dictionary step replaces every token whose lower-case form is a
\* key of the dictionary by the key's value, the first letter in upper case
\* exactly when the token begins with A-Z, leaves the rest of the line, and
\* adds one to wordCorrections for each token it replaced.  "Teh cat sat."
\* leaves cleanLine as "The cat sat." with wordCorrections = 1.
C15_DictionaryTokens ==
    /\ (pc = "idle" /\ rule = 0 /\ clNext = 11 /\ ~HasInheritedToken(clBefore.t)) =>
          /\ clText = ReplaceAll(clBefore.t, DictionaryMatches(clBefore.t)).out
          /\ clStats = Inc(clBefore.stats, "wordCorrections",
                           ReplaceAll(clBefore.t, DictionaryMatches(clBefore.t)).n)
    /\ (pc = "idle" /\ rule = 0 /\ clNext = 0 /\ clLine = LineTeh) =>
          /\ clText = LineThe
          /\ clStats.wordCorrections = 1

\* the step has replaced three tokens of a line, one of them in capitals,
\* and kept a token that holds a key before an apostrophe
C15_Witness ==
    /\ pc = "idle" /\ rule = 0 /\ clNext = 11
    /\ clBefore.t = LineKeys
    /\ SubSeq(clText, 1, 9) = <<"d", "o", "n", "'", "t", " ", "T", "h", "e">>
    /\ clStats.wordCorrections = 3

\* the index after the lower-case letters that follow index i - 1
LowerRunEnd(t, i) ==
    Min({Len(t) + 1} \cup {j \in i..Len(t) : t[j] \notin LowerLetters})

\* stem k stands at i and two or more lower-case letters follow it directly
StemFollowed(t, i, k) ==
    /\ HasPrefixAt(t, i, CONTRACTIONS[k])
    /\ LowerRunEnd(t, i + Len(CONTRACTIONS[k])) >= i + Len(CONTRACTIONS[k]) + 2

\* ... and the stem begins a word, and the letters end one
GluedAt(t, i, k) ==
    /\ StemFollowed(t, i, k)
    /\ At(t, i - 1) \notin WordChars
    /\ At(t, LowerRunEnd(t, i + Len(CONTRACTIONS[k]))) \notin WordChars

\* the stem, one space, the letters
SpaceInserted(t, i, k) ==
    Match(LowerRunEnd(t, i + Len(CONTRACTIONS[k])) - i,
          CONTRACTIONS[k] \o <<" ">>
          \o SubSeq(t, i + Len(CONTRACTIONS[k]),
                    LowerRunEnd(t, i + Len(CONTRACTIONS[k])) - 1))

GluedSites(t) ==
    [i \in 1..Len(t) |->
        IF \E k \in 1..Len(CONTRACTIONS) : GluedAt(t, i, k)
        THEN SpaceInserted(t, i, CHOOSE k \in 1..Len(CONTRACTIONS) : GluedAt(t, i, k))
        ELSE NoMatch]

\* "I'm in the car"
LineSplit == <<"I", "'", "m", " ", "i", "n", " ", "t", "h", "e", " ", "c", "a", "r">>

\* C16: the contraction step, reading the line from the left, inserts
\* exactly one space after every listed stem that begins a word and is
\* directly followed by two or more lower-case letters that end a word (a
\* stem inside the stretch of an earlier split is passed over), changes
\* nothing else, and adds one to contractionSplit for each space inserted.
\* "I'min the car" leaves cleanLine as "I'm in the car" with
\* contractionSplit = 1.
C16_GluedContractions ==
    /\ (pc = "idle" /\ rule = 0 /\ clNext = 16) =>
          /\ clText = ReplaceAll(clBefore.t, GluedSites(clBefore.t)).out
          /\ clStats = Inc(clBefore.stats, "contractionSplit",
                           ReplaceAll(clBefore.t, GluedSites(clBefore.t)).n)
    /\ (pc = "idle" /\ rule = 0 /\ clNext = 0 /\ clLine = LineGlued) =>
          /\ clText = LineSplit
          /\ clStats.contractionSplit = 1

\* the step has split "she'sok" and has passed over the stem inside a word
C16_Witness ==
    /\ pc = "idle" /\ rule = 0 /\ clNext = 16
    /\ clBefore.t = LineInsideWord
    /\ Len(clText) = Len(clBefore.t) + 1
    /\ clStats.contractionSplit = 1

\* C16 as the specification states it: wherever a listed stem is directly
\* followed by two or more lower-case letters, the step inserts a space and
\* counts it.
C16_EveryFollowedStem ==
    (/\ pc = "idle" /\ rule = 0 /\ clNext = 16
     /\ \E i \in 1..Len(clBefore.t) : \E k \in 1..Len(CONTRACTIONS) :
            StemFollowed(clBefore.t, i, k)) =>
        /\ clStats.contractionSplit > clBefore.stats.contractionSplit
        /\ Len(clText) > Len(clBefore.t)

\* C17: a cleaned file is unchanged exactly when every counter is zero: an
\* unchanged file has all-zero statistics, and a counter that is not zero
\* means the text differs.
C17_ChangedIffCounted ==
    Corrected => ((doc.cleanedText = doc.originalText) <=> (doc.stats = ZeroStats))

\* the step cleans a file that holds nothing
CleansEmptyFile ==
    /\ pc = "loop"
    /\ totalFiles' = totalFiles + 1
    /\ doc'.originalText = <<>>

\* C18: cleaning an empty file is not an error: the corrected text is
\* empty, every counter is zero, the loop goes on, and the file is not
\* written.
C18_EmptyDocument ==
    [][CleansEmptyFile =>
          /\ pc' = "loop"
          /\ ~doc'.threw
          /\ doc'.cleanedText = <<>>
          /\ doc'.stats = ZeroStats
          /\ fs' = fs
          /\ writes' = writes
          /\ updatedFiles' = updatedFiles]_vars

\* an empty file has been cleaned
C18_Witness ==
    /\ doc.cleaned
    /\ doc.originalText = <<>>
    /\ fs0[doc.file] = <<>>
    /\ totalFiles >= 1

\* the manifest the run is to use
Chosen == IF fs0[DefaultExports] # Missing THEN DefaultExports ELSE LegacyExports

\* there is no manifest, or the one chosen holds nothing but white space
NothingToClean ==
    \/ fs0[Chosen] = Missing
    \/ AllWhiteSpace(fs0[Chosen], 1, Len(fs0[Chosen]))

SubtitleFiles == {FileA, FileB, FileC}

\* C19: the plugin reads <basename>_subtitles.exports when it exists and
\* subtitles.exports otherwise, and no other manifest; when neither exists
\* or the chosen one is empty it has returned output 1 with the input file
\* object and the variables it was given, and has read and written no
\* subtitle file.
C19_ManifestChoice ==
    pc # "start" =>
        /\ \A k \in 1..Len(reads) :
              reads[k] \in {DefaultExports, LegacyExports} => reads[k] = Chosen
        /\ fs0[Chosen] # Missing => reads # <<>> /\ reads[1] = Chosen
        /\ NothingToClean =>
              /\ pc = "done"
              /\ output = [outputFileObj |-> InputArgs.inputFileObj,
                           outputNumber |-> 1,
                           variables |-> InputArgs.variables]
              /\ args = InputArgs
              /\ fs = fs0
              /\ writes = <<>>
              /\ totalFiles = 0
              /\ \A k \in 1..Len(reads) : reads[k] \notin SubtitleFiles

\* the plugin has returned on an existing, empty <basename>_subtitles.exports
\* although subtitles.exports lists an English file that cleaning changes
C19_Witness ==
    /\ pc = "done"
    /\ fs0[DefaultExports] # Missing
    /\ NothingToClean
    /\ fs0[LegacyExports] = ManifestBoth
    /\ fs0[FileA] # Missing
    /\ Alone(fs0[FileA]).cleanedText # fs0[FileA]
    /\ reads = <<DefaultExports>>
    /\ output.outputNumber = 1

\* " I l " and " I I "
LineIL == <<" ", "I", " ", "l", " ">>

LineII == <<" ", "I", " ", "I", " ">>

\* C20: cleanLine is not idempotent: it returns " I l " for the Text line
\* " l l ", and called on " I l ", the line it returned, it returns the
\* different line " I I ".
C20_SecondRunChanges ==
    (pc = "idle" /\ rule = 0 /\ clNext = 0) =>
        /\ (applied = 1 /\ clLine = LineTwoL) => clText = LineIL
        /\ (applied = 2 /\ clLine = LineIL) => clText = LineII

\* the second call has returned a line that differs from the line the
\* first call returned
C20_Witness ==
    /\ pc = "idle" /\ rule = 0 /\ clNext = 0
    /\ applied = 2
    /\ clLine = LineIL
    /\ clText # clLine

\* cleanLine has returned from the line
ReturnedFrom(l) == pc = "idle" /\ rule = 0 /\ clNext = 0 /\ clLine = l

\* the statistics with the named counters at 1 and the others at 0
OnlyCounted(names) == [c \in Counters |-> IF c \in names THEN 1 ELSE 0]

\* C21: a rule works on what the rules before it left and is not run again
\* on what a later rule leaves: "c0ud" is "could" after one call (0 -> o,
\* then the dictionary); a curly apostrophe is a plain one for the I repair
\* (" l'm" becomes " I'm") and for the contraction split ("I'min" becomes
\* "I'm in"); the l that the punctuation rule sets between white space in
\* ".l x" is not repaired in that call.
C21_RulesInOrder ==
    /\ ReturnedFrom(LineCoud) =>
          /\ clText = <<"c", "o", "u", "l", "d">>
          /\ clStats = OnlyCounted({"zeroToO", "wordCorrections"})
    /\ ReturnedFrom(LineCurlyL) =>
          /\ clText = <<" ", "I", "'", "m">>
          /\ clStats = OnlyCounted({"globalReplacements", "iFix"})
    /\ ReturnedFrom(LineCurlyGlued) =>
          /\ clText = <<"I", "'", "m", " ", "i", "n">>
          /\ clStats = OnlyCounted({"globalReplacements", "contractionSplit"})
    /\ ReturnedFrom(LineDotL) =>
          /\ clText = <<".", " ", "l", " ", "x">>
          /\ clStats = OnlyCounted({"punctSpacing"})

\* cleanLine has returned "could" for "c0ud"
C21_Witness ==
    /\ ReturnedFrom(LineCoud)
    /\ clText = <<"c", "o", "u", "l", "d">>
    /\ clStats.wordCorrections = 1

\* the l, | and 1 of t that have white space directly before and after
Standalone(t) ==
    {i \in 2..(Len(t) - 1) :
        /\ t[i] \in {"l", "|", "1"}
        /\ t[i - 1] \in WhiteSpace
        /\ t[i + 1] \in WhiteSpace}

\* C22: the I repair rewrites, in one call, every l, | or 1 that has white
\* space directly before it and directly after it, also when several of
\* them follow each other with single spaces between.
C22_EveryStandaloneRepaired ==
    (pc = "idle" /\ rule = 0 /\ clNext = 5) =>
        /\ Len(clText) = Len(clBefore.t)
        /\ \A i \in Standalone(clBefore.t) : clText[i] = "I"

\* the l, | and 1 of the line that the I repair turned into I
BecameI == {i \in 1..Len(clBefore.t) : clBefore.t[i] \in {"l", "|", "1"} /\ At(clText, i) = "I"}

\* C23: the I repair counts each character it rewrote once: iFix grows by
\* the number of l, | and 1 of the line that became I, and the repair
\* changes nothing else.
C23_RepairedOnce ==
    (pc = "idle" /\ rule = 0 /\ clNext = 5) =>
        /\ Len(clText) = Len(clBefore.t)
        /\ clStats = Inc(clBefore.stats, "iFix", Cardinality(BecameI))
        /\ \A i \in 1..Len(clText) : clText[i] # clBefore.t[i] => i \in BecameI

\* the repair has rewritten five characters of a line, each by another
\* pattern
C23_Witness ==
    /\ pc = "idle" /\ rule = 0 /\ clNext = 5
    /\ clBefore.t = LineManyI
    /\ BecameI = {2, 6, 8, 12, 16}
    /\ clStats.iFix = 5

\* the four normalisations: double quotes, apostrophes, the ellipsis glyph,
\* long dashes; each with the text it writes
Normalisations ==
    << <<{"LDQUO", "RDQUO", "LOWDQUO", "RAQUO", "LAQUO"}, <<"\"">> >>,
       <<{"LSQUO", "RSQUO"}, <<"'">> >>,
       <<{"ELLIP"}, <<".", ".", ".">> >>,
       <<{"EMDASH", "ENDASH"}, <<"-">> >> >>

\* the normalisations that have a character to replace in t
Applicable(t) ==
    {k \in 1..Len(Normalisations) : \E i \in 1..Len(t) : t[i] \in Normalisations[k][1]}

\* C24: the global normalisation adds to globalReplacements the number of
\* its four sub-rules that changed the line, at most 4, however many
\* characters each of them replaced.
C24_CountsSubRules ==
    (pc = "idle" /\ rule = 0 /\ clNext = 4) =>
        /\ clStats = Inc(clBefore.stats, "globalReplacements",
                         Cardinality(Applicable(clBefore.t)))
        /\ clStats.globalReplacements <= clBefore.stats.globalReplacements + 4
        /\ Applicable(clText) = {}
        /\ Applicable(clBefore.t) = {} <=> clText = clBefore.t

\* the four sub-rules have replaced six characters of a line
C24_Witness ==
    /\ pc = "idle" /\ rule = 0 /\ clNext = 4
    /\ clBefore.t = LineFancy
    /\ clStats.globalReplacements = 4
    /\ Len(clText) = Len(clBefore.t) + 2

\* what may stand after a q that is to become g
ClosingFollow == {" ", "TAB", "CR", "BOM", ".", ",", "!", "?", ";", ":", "'", "\"", ")", "]"}

\* the lower-case q of t at the end of the line or before such a character
TrailingQ(t) ==
    {i \in 1..Len(t) : t[i] = "q" /\ (i = Len(t) \/ t[i + 1] \in ClosingFollow)}

\* C25: the q rule rewrites to g every lower-case q that stands at the end
\* of the line, before white space or before one of . , ! ? ; : ' " ) ],
\* adds one to qToG for each, and leaves every other q and every Q.
C25_TrailingQ ==
    (pc = "idle" /\ rule = 0 /\ clNext = 10 /\ ~clThrew) =>
        /\ clText = [i \in 1..Len(clBefore.t) |->
                        IF i \in TrailingQ(clBefore.t) THEN "g" ELSE clBefore.t[i]]
        /\ clStats = Inc(clBefore.stats, "qToG", Cardinality(TrailingQ(clBefore.t)))

\* the rule has rewritten three q of a line and has left three q and a Q
C25_Witness ==
    /\ pc = "idle" /\ rule = 0 /\ clNext = 10
    /\ clBefore.t = LineManyQ
    /\ clStats.qToG = 3
    /\ Cardinality({i \in 1..Len(clText) : clText[i] \in {"q", "Q"}}) = 4

\* t holds "..." with white space before it or a letter directly after it
LooseEllipsis(t) ==
    \E i \in 1..(Len(t) - 2) :
        /\ SubSeq(t, i, i + 2) = <<".", ".", ".">>
        /\ At(t, i - 1) \in WhiteSpace \/ At(t, i + 3) \in Letters

\* C26: when the line holds "..." after white space or directly before a
\* letter, cleanLine removes the white space, or sets a space after the
\* ellipsis, and counts the line under ellipsisSpacing.
C26_EllipsisCounted ==
    (pc = "idle" /\ rule = 0 /\ clNext = 0 /\ LooseEllipsis(clLine)) =>
        /\ ~LooseEllipsis(clText)
        /\ clStats.ellipsisSpacing >= 1

\* no token of t has a key of the dictionary as its lower-case form
NoKeyToken(t) ==
    \A i \in 1..Len(t) : TokenStartsAt(t, i) => ~IsKey(TokenFrom(t, i))

\* C27: the dictionary step changes only tokens whose lower-case form is
\* one of the ten keys: a line without such a token leaves the step as it
\* came, and wordCorrections is not incremented.
C27_OnlyDictionaryKeys ==
    (pc = "idle" /\ rule = 0 /\ clNext = 11 /\ NoKeyToken(clBefore.t)) =>
        /\ clText = clBefore.t
        /\ clStats = clBefore.stats

\* C28: the line cleanLine returns has no white space directly before a
\* full stop, exclamation mark, question mark, comma, semicolon or colon.
C28_NoSpaceBeforePunct ==
    (pc = "idle" /\ rule = 0 /\ clNext = 0) =>
        \A i \in 2..Len(clText) :
            clText[i] \in {".", "!", "?", ",", ";", ":"} => clText[i - 1] \notin WhiteSpace

\* the hyphens of t, and the first hyphens of its runs of hyphens
Hyphens(t) == {i \in 1..Len(t) : t[i] = "-"}

HyphenRuns(t) == {i \in Hyphens(t) : At(t, i - 1) # "-"}

\* the first character of t that is not white space is a dash, and a
\* character that is not white space follows it
LeadingDashBeforeText(t) ==
    \E d \in 1..Len(t) :
        /\ t[d] = "-"
        /\ AllWhiteSpace(t, 1, d - 1)
        /\ \E j \in (d + 1)..Len(t) : t[j] \notin WhiteSpace

\* C29: the hyphen normalisation leaves one hyphen for every run of
\* hyphens of the line, at the start of the line too, and a line whose
\* first character that is not white space is a dash before text starts
\* with "- ".
C29_HyphensCollapsed ==
    (pc = "idle" /\ rule = 0 /\ clNext = 14) =>
        /\ Cardinality(Hyphens(clText)) = Cardinality(HyphenRuns(clBefore.t))
        /\ LeadingDashBeforeText(clBefore.t) => SubSeq(clText, 1, 2) = <<"-", " ">>

EndsWithCr(l) == Len(l) >= 1 /\ l[Len(l)] = "CR"

\* digits and one carriage return after them
DigitsCr(l) == EndsWithCr(l) /\ MatchesIndex(SubSeq(l, 1, Len(l) - 1))

\* C30: in a file with CRLF line endings a line of digits before its
\* carriage return, and a timing line before its carriage return, is in the
\* output as it was, and every other line still ends with its carriage
\* return after cleaning.
C30_CrlfKept ==
    Corrected =>
        /\ Len(OutLines) = Len(InLines)
        /\ \A i \in 1..Len(InLines) :
              EndsWithCr(InLines[i]) =>
                  /\ DigitsCr(InLines[i]) => OutLines[i] = InLines[i]
                  /\ BeginsWithTiming(InLines[i]) => OutLines[i] = InLines[i]
                  /\ EndsWithCr(OutLines[i])

\* a file of a line of digits with its carriage return and a line that
\* cleaning changed has been cleaned
C30_Witness ==
    /\ Corrected
    /\ Len(InLines) >= 2
    /\ DigitsCr(InLines[1])
    /\ EndsWithCr(InLines[2])
    /\ OutLines[2] # InLines[2]

=============================================================================
